---- MODULE Spec2Model ----
(***************************************************************************)
(* RecWell badminton calendar sync: the schedule parsers (parse_slots,     *)
(* parse_slots_v2, parse_livewhale_widget, parse_text_feed) and the        *)
(* reconciliation of the parsed events against the calendar (sync), as     *)
(* run by the two scripts' main().                                         *)
(*                                                                         *)
(* Text is modelled as sequences of one-character strings, dates as day    *)
(* ordinals counted from 1 January of BaseYear, and a datetime as minutes  *)
(* since that midnight (wall-clock arithmetic, as Python does for two      *)
(* datetimes that share one tzinfo).                                       *)
(***************************************************************************)
EXTENDS Integers, Sequences, FiniteSets, TLC

VARIABLES
    now,         \* wall clock: the current local date (day ordinal)
    pub,         \* what the sites publish: the script that runs and its source documents
    store,       \* the calendar: a set of entries
    nextId,      \* the backend id the store gives to the next inserted entry
    pc,          \* position of the running script
    srcs,        \* gather_slots_from_site: the sources still to fetch, in order
    fetchFailed, \* TRUE once a fetch of this run has raised
    slots,       \* the events parsed so far / handed to sync
    win,         \* sync's window_start (a day ordinal)
    page,        \* sync's page token (0 for None)
    events,      \* sync's list of fetched entries
    existing,    \* sync's existing_by_uid, as the list of its items in dict order
    todo,        \* the uids the running loop of sync still has to visit
    calls,       \* the store calls issued by this run, in order
    prev,        \* the previous run: whether its sync completed, its desired uids, the managed entries it left
    runs,        \* runs started so far
    fails,       \* failures injected so far
    pin,         \* parser harness: the input
    pout         \* parser harness: the parser's result

vars == <<now, pub, store, nextId, pc, srcs, fetchFailed, slots, win, page, events,
          existing, todo, calls, prev, runs, fails, pin, pout>>

syncVars == <<win, page, events, existing, todo>>
harnessVars == <<pin, pout>>

(***************************************************************************)
(* Program constants                                                       *)
(***************************************************************************)
WINDOW_DAYS == 6
TITLE == "Badminton (RecWell)"
CAL_TITLE == "Badminton (RecWell)"
LOCATION_FALLBACK == "UC Berkeley RecWell"
CAL_LOC_FALLBACK == "UC Berkeley RecWell"
SOURCE_TAG == "recwell-badminton"

MinPerDay == 24 * 60

\* What a raising call yields in place of a value.
Raise == [raised |-> TRUE]
Ok(v) == [raised |-> FALSE, val |-> v]

(***************************************************************************)
(* Text helpers: str.lower, str.replace(".", ""), str.split(":"), int      *)
(***************************************************************************)
\* str.lower(): the ASCII letters.
UpperLetters == <<"A", "B", "C", "D", "E", "F", "G", "H", "I", "J", "K", "L", "M", "N", "O", "P", "Q", "R", "S", "T", "U", "V", "W", "X", "Y", "Z">>
LowerLetters == <<"a", "b", "c", "d", "e", "f", "g", "h", "i", "j", "k", "l", "m", "n", "o", "p", "q", "r", "s", "t", "u", "v", "w", "x", "y", "z">>
LowerChar(c) ==
    IF \E i \in 1..26 : UpperLetters[i] = c
    THEN LowerLetters[CHOOSE i \in 1..26 : UpperLetters[i] = c]
    ELSE c

Lower(s) == [i \in 1..Len(s) |-> LowerChar(s[i])]

Contains(s, c) == \E i \in 1..Len(s) : s[i] = c

\* s.replace(".", "")
StripDots(s) == SelectSeq(s, LAMBDA c : c # ".")

Digits == <<"0", "1", "2", "3", "4", "5", "6", "7", "8", "9">>
IsDigit(c) == \E d \in 1..10 : Digits[d] = c
DigitVal(c) == (CHOOSE d \in 1..10 : Digits[d] = c) - 1

RECURSIVE IntAcc(_, _)
IntAcc(s, acc) ==
    IF s = <<>> THEN acc ELSE IntAcc(Tail(s), acc * 10 + DigitVal(Head(s)))

\* int(s): raises ValueError unless s is a non-empty run of digits.
ToInt(s) ==
    IF s # <<>> /\ \A i \in 1..Len(s) : IsDigit(s[i])
    THEN Ok(IntAcc(s, 0))
    ELSE Raise

\* s.split(":") for a string with at most one colon: the list of parts.
SplitColon(s) ==
    IF Contains(s, ":")
    THEN LET k == CHOOSE i \in 1..Len(s) : s[i] = ":" /\ \A j \in 1..(i - 1) : s[j] # ":"
         IN  <<SubSeq(s, 1, k - 1), SubSeq(s, k + 1, Len(s))>>
    ELSE <<s>>

NoHint == <<>>

\* a = (ampm or "").replace(".", "").lower()
NormHint(ampm) == Lower(StripDots(ampm))

IsPm(a) == a \in {<<"p", "m">>, <<"p", " ", "m">>}
IsAm(a) == a \in {<<"a", "m">>, <<"a", " ", "m">>}

\* Faulty variant: a pm hint adds 12 to every hour.
AdjustHourAlways(hh, a) == IF IsPm(a) THEN hh + 12 ELSE IF IsAm(a) /\ hh = 12 THEN 0 ELSE hh

\* The hour adjustment shared by every to_24h.
AdjustHour(hh, a) ==
    LET h1 == IF IsPm(a) /\ hh < 12 THEN hh + 12 ELSE hh
    IN  IF IsAm(a) /\ h1 = 12 THEN 0 ELSE h1

(***************************************************************************)
(* Calendar arithmetic: datetime(...).date(), date comparison, strftime    *)
(***************************************************************************)
BaseYear == 2000 + 25

IsLeap(y) == (y % 4 = 0 /\ y % 100 # 0) \/ y % 400 = 0

DaysInMonth(y, m) ==
    CASE m \in {4, 6, 9, 11} -> 30
      [] m = 2 -> IF IsLeap(y) THEN 29 ELSE 28
      [] OTHER -> 31

DaysInYear(y) == IF IsLeap(y) THEN 366 ELSE 365

RECURSIVE DaysBeforeYear(_)
DaysBeforeYear(y) == IF y <= BaseYear THEN 0 ELSE DaysBeforeYear(y - 1) + DaysInYear(y - 1)

RECURSIVE DaysBeforeMonth(_, _)
DaysBeforeMonth(y, m) == IF m <= 1 THEN 0 ELSE DaysBeforeMonth(y, m - 1) + DaysInMonth(y, m - 1)

\* datetime(y, m, d).date() as a day ordinal; ValueError when no such date exists.
DateOf(y, m, d) ==
    IF m \in 1..12 /\ d >= 1 /\ d <= DaysInMonth(y, m)
    THEN Ok(DaysBeforeYear(y) + DaysBeforeMonth(y, m) + d - 1)
    ELSE Raise

\* date.year
YearOf(ord) ==
    CHOOSE y \in BaseYear..(BaseYear + 3) :
        DaysBeforeYear(y) <= ord /\ ord < DaysBeforeYear(y) + DaysInYear(y)

\* date.strftime("%a"): 1 January 2025 is a Wednesday.
WeekdayAbbr == <<"Mon", "Tue", "Wed", "Thu", "Fri", "Sat", "Sun">>
StrftimeA(ord) == WeekdayAbbr[((ord + 2) % 7) + 1]

\* datetime(date, h, m): ValueError when the hour or the minute is out of range.
MkDateTime(date, h, m) ==
    IF h \in 0..23 /\ m \in 0..59 THEN Ok(date * MinPerDay + h * 60 + m) ELSE Raise

\* datetime.date()
DateOfDt(dt) == dt \div MinPerDay

\* if end_dt <= start_dt: end_dt += timedelta(days=1)
\* Faulty variant: an end equal to the start is left on the same day.
RollEndStrict(start_dt, end_dt) == IF end_dt < start_dt THEN end_dt + MinPerDay ELSE end_dt

RollEnd(start_dt, end_dt) == IF end_dt <= start_dt THEN end_dt + MinPerDay ELSE end_dt

\* Month names, lower case, as strptime's %b and %B know them.
AbbrMonths ==
    << <<"j", "a", "n">>,
       <<"f", "e", "b">>,
       <<"m", "a", "r">>,
       <<"a", "p", "r">>,
       <<"m", "a", "y">>,
       <<"j", "u", "n">>,
       <<"j", "u", "l">>,
       <<"a", "u", "g">>,
       <<"s", "e", "p">>,
       <<"o", "c", "t">>,
       <<"n", "o", "v">>,
       <<"d", "e", "c">> >>
FullMonths ==
    << <<"j", "a", "n", "u", "a", "r", "y">>,
       <<"f", "e", "b", "r", "u", "a", "r", "y">>,
       <<"m", "a", "r", "c", "h">>,
       <<"a", "p", "r", "i", "l">>,
       <<"m", "a", "y">>,
       <<"j", "u", "n", "e">>,
       <<"j", "u", "l", "y">>,
       <<"a", "u", "g", "u", "s", "t">>,
       <<"s", "e", "p", "t", "e", "m", "b", "e", "r">>,
       <<"o", "c", "t", "o", "b", "e", "r">>,
       <<"n", "o", "v", "e", "m", "b", "e", "r">>,
       <<"d", "e", "c", "e", "m", "b", "e", "r">> >>

\* datetime.strptime(f"{mon} ...", "%b ...") / "%B": the month number, case-insensitive;
\* ValueError when mon is no month name of that table.
StrptimeMonth(mon, names) ==
    IF \E i \in 1..12 : names[i] = Lower(mon)
    THEN Ok(CHOOSE i \in 1..12 : names[i] = Lower(mon))
    ELSE Raise

\* s.rstrip(".")
RECURSIVE RStripDot(_)
RStripDot(s) ==
    IF s # <<>> /\ s[Len(s)] = "." THEN RStripDot(SubSeq(s, 1, Len(s) - 1)) ELSE s

\* month_to_int: the names dict of parse_livewhale_widget and parse_text_feed
\* (KeyError cannot happen: day_pat admits only these names).
month_to_int(mon) ==
    LET Names(m) ==
            IF m = <<"s", "e", "p", "t">> THEN 9
            ELSE IF \E i \in 1..12 : AbbrMonths[i] = m
                 THEN CHOOSE i \in 1..12 : AbbrMonths[i] = m
                 ELSE CHOOSE i \in 1..12 : FullMonths[i] = m
    IN  Names(RStripDot(Lower(mon)))

(***************************************************************************)
(* Time expression resolver: the three to_24h of the parsers               *)
(***************************************************************************)
ColonZeroZero == <<":", "0", "0">>

\* hh, mm = [int(x) for x in v.split(":")] : both parts must be integers.
SplitHourMinute(v) ==
    LET Both(hh, mm) == IF hh.raised \/ mm.raised THEN Raise ELSE Ok(<<hh.val, mm.val>>)
        Parts(parts) == Both(ToInt(parts[1]), IF Len(parts) = 2 THEN ToInt(parts[2]) ELSE Raise)
    IN  Parts(SplitColon(v))

\* parse_slots.to_24h
to_24h_slots(val, ampm) ==
    LET Adjusted(hm) ==
            IF hm.raised THEN Raise
            ELSE Ok(<<AdjustHour(hm.val[1], NormHint(ampm)), hm.val[2]>>)
    IN  Adjusted(SplitHourMinute(IF Contains(val, ":") THEN val ELSE val \o ColonZeroZero))

\* parse_time_word: "noon" and "midnight", case-insensitive.
Noon == <<"n", "o", "o", "n">>
Midnight == <<"m", "i", "d", "n", "i", "g", "h", "t">>
IsTimeWord(val) == Lower(val) \in {Noon, Midnight}
TimeWord(val) == IF Lower(val) = Noon THEN <<12, 0>> ELSE <<0, 0>>

\* parse_slots_v2.to_24h
to_24h_v2(val, ampm) ==
    IF IsTimeWord(val) THEN Ok(TimeWord(val)) ELSE to_24h_slots(val, ampm)

\* parse_livewhale_widget.to_24h and parse_text_feed.to_24h
to_24h_feed(val, ampm_hint) ==
    IF IsTimeWord(val) THEN Ok(TimeWord(val))
    ELSE LET HourOnly(h) == IF h.raised THEN Raise ELSE Ok(<<h.val, 0>>)
             Adjusted(hm) ==
                 IF hm.raised THEN Raise
                 ELSE Ok(<<AdjustHour(hm.val[1], NormHint(ampm_hint)), hm.val[2]>>)
         IN  Adjusted(IF Contains(val, ":") THEN SplitHourMinute(val) ELSE HourOnly(ToInt(val)))

(***************************************************************************)
(* Events                                                                  *)
(***************************************************************************)
\* uid = sha1(f"{start_dt.isoformat()}|{end_dt.isoformat()}|{loc}|{title}")[:16]:
\* the digest is taken as injective on the four fields it is computed from.
Uid(start_dt, end_dt, loc, title) == <<start_dt, end_dt, loc, title>>

MkEvent(title, loc, start_dt, end_dt) ==
    [title |-> title, location |-> loc, start |-> start_dt, end |-> end_dt,
     uid |-> Uid(start_dt, end_dt, loc, title)]

\* seen, out = set(), []; for e in events: if e["uid"] not in seen: ...
RECURSIVE DedupeAcc(_, _)
DedupeAcc(evs, out) ==
    IF evs = <<>> THEN out
    ELSE IF \E i \in 1..Len(out) : out[i].uid = Head(evs).uid
         THEN DedupeAcc(Tail(evs), out)
         ELSE DedupeAcc(Tail(evs), Append(out, Head(evs)))

Dedupe(evs) == DedupeAcc(evs, <<>>)

NoDate == 0 - 1
NoText == ""
NoMatch == [matched |-> FALSE]

\* x or default
OrElse(x, default) == IF x = NoText THEN default ELSE x

\* start_dt, end_dt built on one date, the end rolled past midnight when needed.
\* Raises when either datetime(...) raises.
BuildRange(date, s24, e24) ==
    LET Range(start_dt, end_dt) ==
            IF start_dt.raised \/ end_dt.raised THEN Raise
            ELSE Ok(<<start_dt.val, RollEnd(start_dt.val, end_dt.val)>>)
    IN  Range(MkDateTime(date, s24[1], s24[2]), MkDateTime(date, e24[1], e24[2]))

(***************************************************************************)
(* parse_text_feed (recwell_badminton_sync_feed.py)                        *)
(*                                                                         *)
(* A document is the list of its normalised non-empty lines, each given by *)
(* the pattern it matches and the groups captured:                         *)
(*   [kind |-> "day", mon, day]        day_pat                             *)
(*   [kind |-> "time", s, e, ampm]     time_range_pat                      *)
(*   [kind |-> "loc", text]            loc_pat                             *)
(*   [kind |-> "event", text]          event_pat                           *)
(*   [kind |-> "other"]                none of them                        *)
(***************************************************************************)
\* The block's date: built in today's year, moved to the next year when more
\* than 7 days in the past. Raise stands for the except clause (block skipped).
HeaderDate(head, today) ==
    LET Rolled(date_obj, year, mon_i, day_i) ==
            IF date_obj.raised THEN Raise
            ELSE IF date_obj.val < today - 7 THEN DateOf(year + 1, mon_i, day_i)
            ELSE date_obj
        Built(year, mon_i, day_i) == Rolled(DateOf(year, mon_i, day_i), year, mon_i, day_i)
    IN  Built(YearOf(today), month_to_int(head.mon), ToInt(head.day).val)

\* One "Time:" line of a block: Raise, or the list of the events it adds.
FeedTimeLine(l, date_obj, today, cur_loc, cur_ev) ==
    LET Event(r) ==
            IF r.raised THEN Raise
            ELSE IF ~(today <= DateOfDt(r.val[1]) /\ DateOfDt(r.val[1]) <= today + WINDOW_DAYS)
                 THEN Ok(<<>>)
                 ELSE Ok(<<MkEvent(OrElse(cur_ev, CAL_TITLE), OrElse(cur_loc, CAL_LOC_FALLBACK),
                                   r.val[1], r.val[2])>>)
        Times(s, e) ==
            IF s.raised \/ e.raised THEN Raise ELSE Event(BuildRange(date_obj, s.val, e.val))
    IN  Times(to_24h_feed(l.s, l.ampm), to_24h_feed(l.e, l.ampm))

\* The loops over the day blocks and their lines. date is the current block's
\* date_obj, NoDate before the first heading and in a skipped block.
RECURSIVE FeedLoop(_, _, _, _, _, _)
FeedLoop(lines, today, date, cur_loc, cur_ev, acc) ==
    IF lines = <<>> THEN Ok(acc)
    ELSE LET l == Head(lines)
             rest == Tail(lines)
             Block(d) == FeedLoop(rest, today, IF d.raised THEN NoDate ELSE d.val,
                                  NoText, NoText, acc)
             Line(r) == IF r.raised THEN Raise
                        ELSE FeedLoop(rest, today, date, cur_loc, cur_ev, acc \o r.val)
         IN  CASE l.kind = "day" -> Block(HeaderDate(l, today))
               [] l.kind = "loc" /\ date # NoDate ->
                    FeedLoop(rest, today, date, l.text, cur_ev, acc)
               [] l.kind = "event" /\ date # NoDate ->
                    FeedLoop(rest, today, date, cur_loc, l.text, acc)
               [] l.kind = "time" /\ date # NoDate ->
                    Line(FeedTimeLine(l, date, today, cur_loc, cur_ev))
               [] OTHER -> FeedLoop(rest, today, date, cur_loc, cur_ev, acc)

\* The events of the loops, de-duplicated; Raise when a line raised.
Deduped(r) == IF r.raised THEN Raise ELSE Ok(Dedupe(r.val))

parse_text_feed(txt, today) == Deduped(FeedLoop(txt, today, NoDate, NoText, NoText, <<>>))

(***************************************************************************)
(* parse_livewhale_widget (recwell_badminton_sync.py)                      *)
(*                                                                         *)
(* A document is the list of its .lw_events_day elements:                  *)
(*   [head |-> NoMatch or [matched, mon, day], rows |-> <<row, ...>>]      *)
(*   row: [tm |-> NoMatch or [matched, s, e, ampm], loc_txt, title_txt]    *)
(***************************************************************************)
WidgetRow(row, date_obj, today) ==
    IF ~row.tm.matched THEN Ok(<<>>)
    ELSE LET Event(r) ==
                 IF r.raised THEN Raise
                 ELSE IF ~(today <= DateOfDt(r.val[1]) /\ DateOfDt(r.val[1]) <= today + 6)
                      THEN Ok(<<>>)
                      ELSE Ok(<<MkEvent(OrElse(row.title_txt, TITLE),
                                        OrElse(row.loc_txt, LOCATION_FALLBACK),
                                        r.val[1], r.val[2])>>)
             Times(s, e) ==
                 IF s.raised \/ e.raised THEN Raise
                 ELSE Event(BuildRange(date_obj, s.val, e.val))
         IN  Times(to_24h_feed(row.tm.s, row.tm.ampm), to_24h_feed(row.tm.e, row.tm.ampm))

RECURSIVE WidgetRows(_, _, _, _)
WidgetRows(rows, date_obj, today, acc) ==
    IF rows = <<>> THEN Ok(acc)
    ELSE LET Row(r) == IF r.raised THEN Raise
                       ELSE WidgetRows(Tail(rows), date_obj, today, acc \o r.val)
         IN  Row(WidgetRow(Head(rows), date_obj, today))

RECURSIVE WidgetDays(_, _, _)
WidgetDays(days, today, acc) ==
    IF days = <<>> THEN Ok(acc)
    ELSE LET day == Head(days)
             Rows(r) == IF r.raised THEN Raise
                        ELSE WidgetDays(Tail(days), today, acc \o r.val)
             Day(d) == IF d.raised THEN WidgetDays(Tail(days), today, acc)
                       ELSE Rows(WidgetRows(day.rows, d.val, today, <<>>))
         IN  Day(IF day.head.matched THEN HeaderDate(day.head, today) ELSE Raise)

parse_livewhale_widget(html, today) == Deduped(WidgetDays(html, today, <<>>))

(***************************************************************************)
(* parse_slots and parse_slots_v2 (recwell_badminton_sync.py)              *)
(*                                                                         *)
(* A document is the list of its blocks:                                   *)
(*   [dow |-> find_day(header) ("" for None),                              *)
(*    md |-> NoMatch or [matched, mon, day]    the month/day search,       *)
(*    lines |-> <<line, ...>>]                                             *)
(*   line: [m |-> NoMatch or [matched, s, samp, e, eamp]   time_pat,       *)
(*          U |-> the venue keywords line.upper() contains,                *)
(*          dow |-> find_day(line)]                                        *)
(***************************************************************************)
IsDigitStr(s) == s # <<>> /\ \A i \in 1..Len(s) : IsDigit(s[i])

\* explicit_date of a block: Raise when int(md.group("day")) raises (it is outside
\* the try), NoDate when there is no match or the try block fails.
ExplicitDate(md, today, v2) ==
    IF ~md.matched THEN Ok(NoDate)
    ELSE LET Abbr(b) == IF b.raised /\ v2 THEN StrptimeMonth(md.mon, FullMonths) ELSE b
             Tried(d) == IF d.raised THEN Ok(NoDate) ELSE d
             Month(mnum, day) ==
                 Tried(IF mnum.raised THEN Raise ELSE DateOf(YearOf(today), mnum.val, day.val))
             Day(day) ==
                 IF day.raised THEN Raise
                 ELSE Month(IF IsDigitStr(md.mon) THEN ToInt(md.mon)
                            ELSE Abbr(StrptimeMonth(md.mon, AbbrMonths)), day)
         IN  Day(ToInt(md.day))

\* The first of the 7 days from today whose %a name is dow.
ScanWeekday(today, dow) ==
    IF \E k \in 0..6 : StrftimeA(today + k) = dow
    THEN today + (CHOOSE k \in 0..6 :
                     /\ StrftimeA(today + k) = dow
                     /\ \A j \in 0..(k - 1) : StrftimeA(today + j) # dow)
    ELSE NoDate

VenueSlots(U) ==
    IF "FIELD HOUSE" \in U THEN "RSF Field House, UC Berkeley"
    ELSE IF "RSF" \in U THEN "RSF, UC Berkeley"
    ELSE LOCATION_FALLBACK

VenueV2(U) ==
    IF "FIELD HOUSE" \in U \/ "FIELDHOUSE" \in U THEN "RSF Field House, UC Berkeley"
    ELSE IF "RSF" \in U THEN "RSF, UC Berkeley"
    ELSE LOCATION_FALLBACK

\* if not e_ampm and s_ampm: e_ampm = s_ampm
EndHint(s_ampm, e_ampm) == IF e_ampm = NoHint /\ s_ampm # NoHint THEN s_ampm ELSE e_ampm

\* The start's meridiem hint is the one matched with the start token.
StartHint(s_ampm, e_ampm) == s_ampm

\* The time part of one matched line, from the tokens to the event.
SlotsEvent(m, loc, event_date, v2) ==
    LET Event(r) == IF r.raised THEN Raise
                    ELSE Ok(<<MkEvent(TITLE, loc, r.val[1], r.val[2])>>)
        Times(s, e) == IF s.raised \/ e.raised THEN Raise
                       ELSE Event(BuildRange(event_date, s.val, e.val))
        To24h(val, ampm) == IF v2 THEN to_24h_v2(val, ampm) ELSE to_24h_slots(val, ampm)
    IN  Times(To24h(m.s, StartHint(m.samp, m.eamp)), To24h(m.e, EndHint(m.samp, m.eamp)))

\* The loop over the lines of one block; dow is the block's weekday, which a
\* line sets when the header gave none. Yields Raise or [evs, dow].
RECURSIVE SlotsLines(_, _, _, _, _, _)
SlotsLines(lines, explicit_date, dow, today, v2, acc) ==
    IF lines = <<>> THEN Ok(acc)
    ELSE LET line == Head(lines)
             rest == Tail(lines)
         IN  IF ~line.m.matched THEN SlotsLines(rest, explicit_date, dow, today, v2, acc)
             ELSE LET loc == IF v2 THEN VenueV2(line.U) ELSE VenueSlots(line.U)
                      Emit(r, dow1) ==
                          IF r.raised THEN Raise
                          ELSE SlotsLines(rest, explicit_date, dow1, today, v2, acc \o r.val)
                      Dated(event_date, dow1) ==
                          IF event_date = NoDate
                          THEN SlotsLines(rest, explicit_date, dow1, today, v2, acc)
                          ELSE IF ~(today <= event_date /\ event_date <= today + 6)
                          THEN SlotsLines(rest, explicit_date, dow1, today, v2, acc)
                          ELSE Emit(SlotsEvent(line.m, loc, event_date, v2), dow1)
                      Day(dow1) ==
                          Dated(IF explicit_date = NoDate /\ dow1 # ""
                                THEN ScanWeekday(today, dow1)
                                ELSE explicit_date, dow1)
                  IN  Day(IF explicit_date = NoDate /\ dow = "" THEN line.dow ELSE dow)

RECURSIVE SlotsBlocks(_, _, _, _)
SlotsBlocks(blocks, today, v2, acc) ==
    IF blocks = <<>> THEN Ok(acc)
    ELSE LET blk == Head(blocks)
             Lines(r) == IF r.raised THEN Raise
                         ELSE SlotsBlocks(Tail(blocks), today, v2, acc \o r.val)
             Block(d) == IF d.raised THEN Raise
                         ELSE Lines(SlotsLines(blk.lines, d.val, blk.dow, today, v2, <<>>))
         IN  Block(ExplicitDate(blk.md, today, v2))

parse_slots(html, today) == Deduped(SlotsBlocks(html, today, FALSE, <<>>))

parse_slots_v2(html, today) == Deduped(SlotsBlocks(html, today, TRUE, <<>>))

(***************************************************************************)
(* Parser harness: each parser applied to bounded documents                *)
(***************************************************************************)
\* How many context lines may precede the probed line of a document.
MaxCtx == 1

\* Time tokens the patterns of parse_slots, the widget and the feed can capture
\* (\d{1,2} with an optional :\d{2}; the last two also Noon and Midnight).
NumToks == { <<"2">>, <<"6">>, <<"1", "2">>, <<"2", "5">>, <<"2", ":", "9", "9">> }
WordToks == { <<"N", "o", "o", "n">>, <<"M", "i", "d", "n", "i", "g", "h", "t">> }
\* parse_slots_v2 writes its patterns with doubled backslashes in raw strings, so
\* its digit alternative captures a backslash followed by the letter d.
V2Toks == WordToks \cup { <<"\\", "d">> }
Hints == { NoHint, <<"p", ".", "m", ".">>, <<"A", "M">> }

Nov == <<"N", "o", "v">>
Jan == <<"J", "a", "n">>
HarnessHeads == { [mon |-> Nov, day |-> <<"9">>], [mon |-> Jan, day |-> <<"3">>] }
HarnessTodays == { DateOf(BaseYear, 11, 9).val, DateOf(BaseYear, 12, 29).val }

SeqsUpTo(S, n) == UNION { [1..k -> S] : k \in 0..n }

\* Feed lines.
FeedTime(s, e, ampm) == [kind |-> "time", s |-> s, e |-> e, ampm |-> ampm]
FeedDay(h) == [kind |-> "day", mon |-> h.mon, day |-> h.day]
FeedGood == FeedTime(<<"1", "0">>, <<"1", "1">>, <<"a", ".", "m", ".">>)
FeedCtx == { FeedGood,
             [kind |-> "loc", text |-> "RSF FieldHouse Court C"],
             [kind |-> "event", text |-> "Open Rec Badminton"] }
FeedProbes == { FeedTime(s, e, a) : s \in NumToks \cup WordToks, e \in NumToks \cup WordToks,
                                    a \in Hints }

\* Widget rows.
WidgetTime(s, e, ampm) == [matched |-> TRUE, s |-> s, e |-> e, ampm |-> ampm]
WidgetGood == [tm |-> WidgetTime(<<"1", "0">>, <<"1", "1">>, <<"a", ".", "m", ".">>),
               loc_txt |-> "RSF FieldHouse Court C", title_txt |-> "Open Rec Badminton"]
WidgetCtx == { WidgetGood, [tm |-> NoMatch, loc_txt |-> NoText, title_txt |-> NoText] }
WidgetProbes == { [tm |-> WidgetTime(s, e, a), loc_txt |-> NoText, title_txt |-> NoText] :
                    s \in NumToks \cup WordToks, e \in NumToks \cup WordToks, a \in Hints }

\* Lines of the site pages.
SlotsTime(s, samp, e, eamp) == [matched |-> TRUE, s |-> s, samp |-> samp, e |-> e, eamp |-> eamp]
SlotsGood == [m |-> SlotsTime(<<"1", "0">>, <<"a", ".", "m", ".">>, <<"1", "1">>, NoHint),
              U |-> {"RSF"}, dow |-> ""]
SlotsCtx == { SlotsGood, [m |-> NoMatch, U |-> {}, dow |-> "Tue"] }
SlotsProbes == { [m |-> SlotsTime(s, sa, e, ea), U |-> {}, dow |-> "Mon"] :
                   s \in NumToks, sa \in Hints, e \in NumToks, ea \in Hints }
V2Good == [m |-> SlotsTime(<<"N", "o", "o", "n">>, NoHint,
                           <<"M", "i", "d", "n", "i", "g", "h", "t">>, NoHint),
           U |-> {"FIELDHOUSE"}, dow |-> ""]
V2Ctx == { V2Good, [m |-> NoMatch, U |-> {}, dow |-> "Tue"] }
V2Probes == { [m |-> SlotsTime(s, sa, e, ea), U |-> {}, dow |-> "Mon"] :
                s \in V2Toks, sa \in Hints, e \in V2Toks, ea \in Hints }
\* A block header of a site page: the weekday found and the month/day found.
SlotsHeads == { [dow |-> "Sun", md |-> NoMatch],
                [dow |-> "", md |-> NoMatch],
                [dow |-> "", md |-> [matched |-> TRUE, mon |-> Nov, day |-> <<"9">>]] }
V2Heads == { [dow |-> "Sun", md |-> NoMatch], [dow |-> "", md |-> NoMatch] }

HarnessInputs ==
    { [parser |-> "feed", head |-> h, pre |-> pre, probe |-> x, post |-> post, today |-> t] :
        h \in HarnessHeads, pre \in SeqsUpTo(FeedCtx, MaxCtx), x \in FeedProbes,
        post \in {<<>>, <<FeedGood>>}, t \in HarnessTodays }
    \cup
    { [parser |-> "widget", head |-> h, pre |-> pre, probe |-> x, post |-> post, today |-> t] :
        h \in HarnessHeads, pre \in SeqsUpTo(WidgetCtx, MaxCtx), x \in WidgetProbes,
        post \in {<<>>, <<WidgetGood>>}, t \in HarnessTodays }
    \cup
    { [parser |-> "slots", head |-> h, pre |-> pre, probe |-> x, post |-> post, today |-> t] :
        h \in SlotsHeads, pre \in SeqsUpTo(SlotsCtx, MaxCtx), x \in SlotsProbes,
        post \in {<<>>, <<SlotsGood>>}, t \in {DateOf(BaseYear, 11, 9).val} }
    \cup
    { [parser |-> "v2", head |-> h, pre |-> pre, probe |-> x, post |-> post, today |-> t] :
        h \in V2Heads, pre \in SeqsUpTo(V2Ctx, MaxCtx), x \in V2Probes,
        post \in {<<>>, <<V2Good>>}, t \in {DateOf(BaseYear, 11, 9).val} }

\* The document of a harness input, with the given lines under its one header.
DocWith(inp, body) ==
    CASE inp.parser = "feed" -> <<FeedDay(inp.head)>> \o body
      [] inp.parser = "widget" ->
            << [head |-> [matched |-> TRUE, mon |-> inp.head.mon, day |-> inp.head.day],
                rows |-> body] >>
      [] OTHER -> << [dow |-> inp.head.dow, md |-> inp.head.md, lines |-> body] >>

DocOf(inp) == DocWith(inp, inp.pre \o <<inp.probe>> \o inp.post)

\* The same document without the probed line.
DocWithoutProbe(inp) == DocWith(inp, inp.pre \o inp.post)

RunParser(parser, doc, today) ==
    CASE parser = "feed" -> parse_text_feed(doc, today)
      [] parser = "widget" -> parse_livewhale_widget(doc, today)
      [] parser = "slots" -> parse_slots(doc, today)
      [] OTHER -> parse_slots_v2(doc, today)

NoOut == [parser |-> "none"]
(***************************************************************************)
(* The event store (Google Calendar) and sync's local computations         *)
(*                                                                         *)
(* An entry is a dict: id, start, end, and, when it has them,              *)
(* extendedProperties: a dict that may hold private: a dict that may hold  *)
(* source and recwell_uid.                                                 *)
(***************************************************************************)
\* How many entries the store returns per page of a list call.
PageSize == 2

EmptyDict == <<>>

\* ep = (ev.get("extendedProperties") or {}).get("private", {})
PrivateOf(ev) ==
    IF "extendedProperties" \in DOMAIN ev /\ "private" \in DOMAIN ev.extendedProperties
    THEN ev.extendedProperties.private
    ELSE EmptyDict

\* Faulty variant: the source tag is not compared.
HasUid(ev) == "recwell_uid" \in DOMAIN PrivateOf(ev)

\* ep.get("source") == "recwell-badminton" and "recwell_uid" in ep
IsManaged(ev) ==
    LET ep == PrivateOf(ev)
    IN  /\ "source" \in DOMAIN ep
        /\ ep.source = SOURCE_TAG
        /\ "recwell_uid" \in DOMAIN ep

\* to_gcal(slot): the body of an insert or update call.
to_gcal(slot) ==
    [summary |-> slot.title, location |-> slot.location,
     start |-> slot.start, end |-> slot.end,
     extendedProperties |->
        [private |-> [source |-> SOURCE_TAG, recwell_uid |-> slot.uid]]]

\* The entry the store holds for a body under a backend id.
EntryOf(id, body) ==
    [id |-> id, summary |-> body.summary, location |-> body.location,
     start |-> body.start, end |-> body.end,
     extendedProperties |-> body.extendedProperties]

\* events().list(timeMin, timeMax, singleEvents, showDeleted=False): the entries
\* that end after timeMin and start before timeMax, here in id order.
InRange(ev, timeMin, timeMax) == ev.end > timeMin /\ ev.start < timeMax

RECURSIVE ById(_)
ById(S) ==
    IF S = {} THEN <<>>
    ELSE LET e == CHOOSE x \in S : \A y \in S : x.id <= y.id
         IN  <<e>> \o ById(S \ {e})

Listing(st, timeMin, timeMax) == ById({ev \in st : InRange(ev, timeMin, timeMax)})

\* One page of the listing: its items and its nextPageToken (0: none). A token is
\* the number of entries the earlier pages returned.
ListPage(st, timeMin, timeMax, token) ==
    LET all == Listing(st, timeMin, timeMax)
        upto == IF token + PageSize < Len(all) THEN token + PageSize ELSE Len(all)
    IN  [items |-> SubSeq(all, token + 1, upto),
         nextPageToken |-> IF upto < Len(all) THEN upto ELSE 0]

StoreInsert(st, id, body) == st \cup {EntryOf(id, body)}
StoreUpdate(st, id, body) == {ev \in st : ev.id # id} \cup {EntryOf(id, body)}
StoreDelete(st, id) == {ev \in st : ev.id # id}

\* A dict as the list of its items <<key, value>> in insertion order: d[k] = v
\* keeps the place of a key that is already there.
DictSet(d, k, v) ==
    IF \E i \in 1..Len(d) : d[i][1] = k
    THEN [i \in 1..Len(d) |-> IF d[i][1] = k THEN <<k, v>> ELSE d[i]]
    ELSE Append(d, <<k, v>>)

DictHas(d, k) == \E i \in 1..Len(d) : d[i][1] = k
DictAt(d, k) == d[CHOOSE i \in 1..Len(d) : d[i][1] = k][2]
DictKeys(d) == [i \in 1..Len(d) |-> d[i][1]]
KeySet(d) == {d[i][1] : i \in 1..Len(d)}

\* window_start = now.replace(hour=0, ...); window_end = window_start + 7 days
\* (timedelta(days=7) in the site script, WINDOW_DAYS + 1 in the feed script).
WindowStart(today) == today * MinPerDay
WindowEnd(today) == (today + WINDOW_DAYS + 1) * MinPerDay

\* existing_by_uid: the managed entries of the listing, keyed by recwell_uid.
RECURSIVE ExistingAcc(_, _)
ExistingAcc(evs, d) ==
    IF evs = <<>> THEN d
    ELSE LET ev == Head(evs)
         IN  IF IsManaged(ev)
             THEN ExistingAcc(Tail(evs), DictSet(d, PrivateOf(ev).recwell_uid, ev))
             ELSE ExistingAcc(Tail(evs), d)

ExistingByUid(evs) == ExistingAcc(evs, <<>>)

\* desired_by_uid = {s["uid"]: s for s in slots}
RECURSIVE DesiredAcc(_, _)
DesiredAcc(ss, d) ==
    IF ss = <<>> THEN d ELSE DesiredAcc(Tail(ss), DictSet(d, Head(ss).uid, Head(ss)))

DesiredByUid(ss) == DesiredAcc(ss, <<>>)

\* The uids the delete loop issues a call for: those of existing_by_uid, in
\* order, that desired_by_uid lacks.
Stale(ex, desired) == SelectSeq(DictKeys(ex), LAMBDA u : ~DictHas(desired, u))

\* Faulty variant: every desired uid is inserted.
UpsertNeverUpdate(uid, ex) == FALSE

\* Faulty variant: the items of a page replace those of the pages before.
KeepLastPage(evs, items) == items

\* events += resp.get("items", [])
Accumulate(evs, items) == evs \o items

\* Whether the upsert loop updates (TRUE) or inserts (FALSE) for a uid.
UpsertIsUpdate(uid, ex) == DictHas(ex, uid)

\* Faulty variant: the exception is caught and the loop goes on where it was.
CatchAndContinue(at) == at

\* Where sync goes when a store call raises: the exception leaves sync and main.
AfterStoreFailure(at) == "failed"

\* The loop that follows the listing, and the one that follows the upserts.
AfterListing(desired, ex) ==
    IF desired # <<>> THEN [pc |-> "upsert", todo |-> DictKeys(desired)]
    ELSE IF Stale(ex, desired) # <<>> THEN [pc |-> "delete", todo |-> Stale(ex, desired)]
    ELSE [pc |-> "done", todo |-> <<>>]

AfterUpserts(desired, ex) ==
    IF Stale(ex, desired) # <<>> THEN [pc |-> "delete", todo |-> Stale(ex, desired)]
    ELSE [pc |-> "done", todo |-> <<>>]

(***************************************************************************)
(* What the sites publish, and the calendars a run may find                *)
(***************************************************************************)
\* How many entries the calendar may hold before the first run.
MaxInit == 2
\* How many runs of the script a behaviour holds.
MaxRuns == 2
\* How many midnights may pass during a behaviour.
MaxTicks == 1
\* How many fetch, credential or store calls may raise during a behaviour.
MaxFail == 1

\* candidates[:8] in discover_related_pages
RelatedCap == 8

Dec == <<"D", "e", "c">>
Day0 == DateOf(BaseYear, 12, 29).val

DayMon == [kind |-> "day", mon |-> Dec, day |-> <<"2", "9">>]
DayTue == [kind |-> "day", mon |-> Dec, day |-> <<"3", "0">>]
LateLine == FeedTime(<<"2", "3">>, <<"1">>, NoHint)
BadLine == FeedTime(<<"2", "5">>, <<"2", "6">>, NoHint)

FeedPubs ==
    { [script |-> "feed", feed |-> d] :
        d \in { <<>>,
                <<DayMon, FeedGood>>,
                <<DayMon, FeedGood, DayTue, FeedGood>>,
                <<DayMon, LateLine>>,
                <<DayMon, FeedGood, BadLine>> } }

PageNone == <<>>
PageNoon == << [dow |-> "Mon", md |-> NoMatch, lines |-> <<V2Good>>] >>
WidgetMon == << [head |-> [matched |-> TRUE, mon |-> Dec, day |-> <<"2", "9">>],
                 rows |-> <<WidgetGood>>] >>
WidgetBad == << [head |-> [matched |-> TRUE, mon |-> Dec, day |-> <<"2", "9">>],
                 rows |-> <<WidgetGood,
                            [tm |-> WidgetTime(<<"2", "5">>, <<"2", "6">>, NoHint),
                             loc_txt |-> NoText, title_txt |-> NoText]>>] >>

\* main: the start page; links: how many related links it carries; related: what
\* each related page holds; widget: the LiveWhale widget.
SitePubs ==
    { [script |-> "site", main |-> PageNone, links |-> 0, related |-> PageNone, widget |-> WidgetMon],
      [script |-> "site", main |-> PageNoon, links |-> 1, related |-> PageNoon, widget |-> WidgetMon],
      [script |-> "site", main |-> PageNone, links |-> 1, related |-> PageNone, widget |-> WidgetBad] }

Pubs == FeedPubs \cup SitePubs

\* The event of "Time: 10 - 11 a.m." under "Dec. 29", as the feed and as the widget emit it.
EvFeed == MkEvent(CAL_TITLE, CAL_LOC_FALLBACK, Day0 * MinPerDay + 600, Day0 * MinPerDay + 660)
EvWidget == MkEvent("Open Rec Badminton", "RSF FieldHouse Court C",
                    Day0 * MinPerDay + 600, Day0 * MinPerDay + 660)

\* Entries a calendar may hold before the first run: managed ones (one of them
\* twice), and unmanaged ones of each kind.
InitEntries ==
    { EntryOf(1, to_gcal(EvFeed)),
      EntryOf(2, to_gcal(EvFeed)),
      EntryOf(3, to_gcal(EvWidget)),
      [EntryOf(4, to_gcal(EvFeed)) EXCEPT
          !.extendedProperties = [private |-> [source |-> "other-sync", recwell_uid |-> EvFeed.uid]]],
      [EntryOf(5, to_gcal(EvFeed)) EXCEPT
          !.extendedProperties = [private |-> [source |-> SOURCE_TAG]]],
      [id |-> 6, summary |-> "Lunch", location |-> "", start |-> EvFeed.start, end |-> EvFeed.end] }

InitStores == { S \in SUBSET InitEntries : Cardinality(S) <= MaxInit }

NoPrev == [ok |-> FALSE, desired |-> {}, managed |-> {}]

Min(a, b) == IF a < b THEN a ELSE b

\* The sources gather_slots_from_site fetches after the start page: the widget,
\* then the related pages discover_related_pages found.
SourcesAfterMain(links) == <<"widget">> \o [i \in 1..Min(links, RelatedCap) |-> "related"]

UidsOf(ss) == {ss[i].uid : i \in 1..Len(ss)}
ManagedIn(st) == {ev \in st : IsManaged(ev)}

InPipeline == pc # "harness"

Init ==
    /\ now = Day0
    /\ pub \in Pubs
    /\ store \in InitStores
    /\ nextId = Cardinality(InitEntries) + 1
    /\ pc = "fetch"
    /\ srcs = <<"main">>
    /\ fetchFailed = FALSE
    /\ slots = <<>>
    /\ win = NoDate
    /\ page = 0
    /\ events = <<>>
    /\ existing = <<>>
    /\ todo = <<>>
    /\ calls = <<>>
    /\ prev = NoPrev
    /\ runs = 1
    /\ fails = 0
    /\ pin = NoOut
    /\ pout = NoOut

(***************************************************************************)
(* The scripts: main() of the feed script and of the site script           *)
(***************************************************************************)
AbortRun ==
    /\ pc' = "aborted"
    /\ UNCHANGED <<slots, srcs>>

\* feed main(): txt = fetch_text(); slots = parse_text_feed(txt)
FetchText ==
    /\ pc = "fetch"
    /\ pub.script = "feed"
    /\ \/ /\ fails < MaxFail
          /\ fails' = fails + 1
          /\ fetchFailed' = TRUE
          /\ AbortRun
       \/ /\ UNCHANGED <<fails, fetchFailed>>
          /\ LET r == parse_text_feed(pub.feed, now)
             IN  IF r.raised THEN AbortRun
                 ELSE /\ slots' = r.val
                      /\ pc' = "auth"
                      /\ UNCHANGED srcs
    /\ UNCHANGED <<now, pub, store, nextId, syncVars, calls, prev, runs, harnessVars>>

\* The end of gather_slots_from_site once no source is left: de-duplicate.
Gathered(out, left) ==
    IF left = <<>> THEN [slots |-> Dedupe(out), pc |-> "auth"]
    ELSE [slots |-> out, pc |-> "fetch"]

\* gather_slots_from_site: start_html = fetch_html(start_url); slots = parse_slots_v2(start_html)
FetchMain ==
    /\ pc = "fetch"
    /\ pub.script = "site"
    /\ Head(srcs) = "main"
    /\ \/ /\ fails < MaxFail
          /\ fails' = fails + 1
          /\ fetchFailed' = TRUE
          /\ AbortRun
       \/ /\ UNCHANGED <<fails, fetchFailed>>
          /\ LET r == parse_slots_v2(pub.main, now)
             IN  IF r.raised THEN AbortRun
                 ELSE /\ slots' = r.val
                      /\ srcs' = SourcesAfterMain(pub.links)
                      /\ pc' = "fetch"
    /\ UNCHANGED <<now, pub, store, nextId, syncVars, calls, prev, runs, harnessVars>>

\* What an except clause around a source leaves of the run: the source is
\* skipped and the run goes on with the other sources.
Swallow(out, left) == Gathered(out, left)

\* try: widget_html = fetch_html(WIDGET_URL); out.extend(parse_livewhale_widget(...))
\* except Exception: pass
FetchWidget ==
    /\ pc = "fetch"
    /\ pub.script = "site"
    /\ Head(srcs) = "widget"
    /\ srcs' = Tail(srcs)
    /\ \/ /\ fails < MaxFail
          /\ fails' = fails + 1
          /\ fetchFailed' = TRUE
          /\ slots' = Swallow(slots, Tail(srcs)).slots
          /\ pc' = Swallow(slots, Tail(srcs)).pc
       \/ /\ UNCHANGED <<fails, fetchFailed>>
          /\ LET r == parse_livewhale_widget(pub.widget, now)
                 g == IF r.raised THEN Swallow(slots, Tail(srcs))
                      ELSE Gathered(slots \o r.val, Tail(srcs))
             IN  /\ slots' = g.slots
                 /\ pc' = g.pc
    /\ UNCHANGED <<now, pub, store, nextId, syncVars, calls, prev, runs, harnessVars>>

\* for url in discover_related_pages(...): try: out.extend(parse_slots_v2(fetch_html(url)))
\* except Exception: continue
FetchRelated ==
    /\ pc = "fetch"
    /\ pub.script = "site"
    /\ Head(srcs) = "related"
    /\ srcs' = Tail(srcs)
    /\ \/ /\ fails < MaxFail
          /\ fails' = fails + 1
          /\ fetchFailed' = TRUE
          /\ slots' = Swallow(slots, Tail(srcs)).slots
          /\ pc' = Swallow(slots, Tail(srcs)).pc
       \/ /\ UNCHANGED <<fails, fetchFailed>>
          /\ LET r == parse_slots_v2(pub.related, now)
                 g == IF r.raised THEN Swallow(slots, Tail(srcs))
                      ELSE Gathered(slots \o r.val, Tail(srcs))
             IN  /\ slots' = g.slots
                 /\ pc' = g.pc
    /\ UNCHANGED <<now, pub, store, nextId, syncVars, calls, prev, runs, harnessVars>>

\* service = auth_calendar(): a credential failure leaves main.
Auth ==
    /\ pc = "auth"
    /\ \/ /\ fails < MaxFail
          /\ fails' = fails + 1
          /\ pc' = "aborted"
       \/ /\ UNCHANGED fails
          /\ pc' = "sync"
    /\ UNCHANGED <<now, pub, store, nextId, srcs, fetchFailed, slots, syncVars, calls, prev,
                   runs, harnessVars>>

(***************************************************************************)
(* sync(service, calendar_id, slots)                                       *)
(***************************************************************************)
ListCall(token, timeMin, timeMax, ok) ==
    [op |-> "list", token |-> token, timeMin |-> timeMin, timeMax |-> timeMax, ok |-> ok]
WriteCall(op, id, uid, ok) == [op |-> op, id |-> id, uid |-> uid, ok |-> ok]

\* now = datetime.now(tz); window_start = now.replace(hour=0, ...); events, page = [], None
SyncStart ==
    /\ pc = "sync"
    /\ win' = now
    /\ page' = 0
    /\ events' = <<>>
    /\ existing' = <<>>
    /\ todo' = <<>>
    /\ pc' = "list"
    /\ UNCHANGED <<now, pub, store, nextId, srcs, fetchFailed, slots, calls, prev, runs, fails,
                   harnessVars>>

\* One turn of the while loop: a list call; after the last page, existing_by_uid
\* and desired_by_uid are built and the upsert loop begins.
List ==
    /\ pc = "list"
    /\ \/ /\ fails < MaxFail
          /\ fails' = fails + 1
          /\ calls' = Append(calls, ListCall(page, WindowStart(win), WindowEnd(win), FALSE))
          /\ pc' = AfterStoreFailure(pc)
          /\ UNCHANGED <<page, events, existing, todo>>
       \/ /\ UNCHANGED fails
          /\ calls' = Append(calls, ListCall(page, WindowStart(win), WindowEnd(win), TRUE))
          /\ LET resp == ListPage(store, WindowStart(win), WindowEnd(win), page)
                 evs == Accumulate(events, resp.items)
             IN  /\ events' = evs
                 /\ page' = resp.nextPageToken
                 /\ IF resp.nextPageToken # 0
                    THEN /\ pc' = "list"
                         /\ UNCHANGED <<existing, todo>>
                    ELSE LET nxt == AfterListing(DesiredByUid(slots), ExistingByUid(evs))
                         IN  /\ existing' = ExistingByUid(evs)
                             /\ pc' = nxt.pc
                             /\ todo' = nxt.todo
    /\ UNCHANGED <<now, pub, store, nextId, srcs, fetchFailed, slots, win, prev, runs,
                   harnessVars>>

\* One turn of "for uid, s in desired_by_uid.items()": an update or an insert call.
Upsert ==
    /\ pc = "upsert"
    /\ LET uid == Head(todo)
           body == to_gcal(DictAt(DesiredByUid(slots), uid))
           isUpd == UpsertIsUpdate(uid, existing)
           id == IF isUpd THEN DictAt(existing, uid).id ELSE 0
           op == IF isUpd THEN "update" ELSE "insert"
           nxt == IF Tail(todo) # <<>> THEN [pc |-> "upsert", todo |-> Tail(todo)]
                  ELSE AfterUpserts(DesiredByUid(slots), existing)
       IN  \/ /\ fails < MaxFail
              /\ fails' = fails + 1
              /\ calls' = Append(calls, WriteCall(op, id, uid, FALSE))
              /\ pc' = AfterStoreFailure(pc)
              /\ UNCHANGED <<store, nextId, todo>>
           \/ /\ UNCHANGED fails
              /\ calls' = Append(calls, WriteCall(op, id, uid, TRUE))
              /\ store' = IF isUpd THEN StoreUpdate(store, id, body)
                          ELSE StoreInsert(store, nextId, body)
              /\ nextId' = IF isUpd THEN nextId ELSE nextId + 1
              /\ pc' = nxt.pc
              /\ todo' = nxt.todo
    /\ UNCHANGED <<now, pub, srcs, fetchFailed, slots, win, page, events, existing, prev, runs,
                   harnessVars>>

\* One delete call of "for uid, ev in existing_by_uid.items(): if uid not in desired_by_uid".
Delete ==
    /\ pc = "delete"
    /\ LET uid == Head(todo)
           id == DictAt(existing, uid).id
       IN  \/ /\ fails < MaxFail
              /\ fails' = fails + 1
              /\ calls' = Append(calls, WriteCall("delete", id, uid, FALSE))
              /\ pc' = AfterStoreFailure(pc)
              /\ UNCHANGED <<store, todo>>
           \/ /\ UNCHANGED fails
              /\ calls' = Append(calls, WriteCall("delete", id, uid, TRUE))
              /\ store' = StoreDelete(store, id)
              /\ todo' = Tail(todo)
              /\ pc' = IF Tail(todo) = <<>> THEN "done" ELSE "delete"
    /\ UNCHANGED <<now, pub, nextId, srcs, fetchFailed, slots, win, page, events, existing, prev,
                   runs, harnessVars>>

\* The script is run again (cron): a new process, nothing kept but the calendar.
NextRun ==
    /\ pc \in {"done", "aborted", "failed"}
    /\ runs < MaxRuns
    /\ runs' = runs + 1
    /\ prev' = [ok |-> pc = "done", desired |-> UidsOf(slots), managed |-> ManagedIn(store)]
    /\ pc' = "fetch"
    /\ srcs' = <<"main">>
    /\ fetchFailed' = FALSE
    /\ slots' = <<>>
    /\ win' = NoDate
    /\ page' = 0
    /\ events' = <<>>
    /\ existing' = <<>>
    /\ todo' = <<>>
    /\ calls' = <<>>
    /\ UNCHANGED <<now, pub, store, nextId, fails, harnessVars>>

\* Local midnight passes.
Tick ==
    /\ InPipeline
    /\ now < Day0 + MaxTicks
    /\ now' = now + 1
    /\ UNCHANGED <<pub, store, nextId, pc, srcs, fetchFailed, slots, syncVars, calls, prev, runs,
                   fails, harnessVars>>

Next ==
    \/ FetchText
    \/ FetchMain
    \/ FetchWidget
    \/ FetchRelated
    \/ Auth
    \/ SyncStart
    \/ List
    \/ Upsert
    \/ Delete
    \/ NextRun
    \/ Tick

Spec == Init /\ [][Next]_vars

\* A script that has reached the list loop goes on: no step of the loop waits
\* for anything but the store's answer.
SpecLive == Spec /\ WF_vars(List)

(***************************************************************************)
(* The parsers on their own: one document in, one result out               *)
(***************************************************************************)
InitParse ==
    /\ pin \in HarnessInputs
    /\ pout = NoOut
    /\ pc = "harness"
    /\ now = Day0
    /\ pub = [script |-> "none"]
    /\ store = {}
    /\ nextId = 1
    /\ srcs = <<>>
    /\ fetchFailed = FALSE
    /\ slots = <<>>
    /\ win = NoDate
    /\ page = 0
    /\ events = <<>>
    /\ existing = <<>>
    /\ todo = <<>>
    /\ calls = <<>>
    /\ prev = NoPrev
    /\ runs = 0
    /\ fails = 0

\* The parser returns (or raises) and the result is recorded.
Return(parser, res) ==
    /\ pout' = [parser |-> parser, res |-> res]
    /\ UNCHANGED <<now, pub, store, nextId, pc, srcs, fetchFailed, slots, syncVars, calls, prev,
                   runs, fails, pin>>

ApplyParseTextFeed ==
    /\ pc = "harness" /\ pout = NoOut /\ pin.parser = "feed"
    /\ Return("feed", parse_text_feed(DocOf(pin), pin.today))

ApplyParseLivewhaleWidget ==
    /\ pc = "harness" /\ pout = NoOut /\ pin.parser = "widget"
    /\ Return("widget", parse_livewhale_widget(DocOf(pin), pin.today))

ApplyParseSlots ==
    /\ pc = "harness" /\ pout = NoOut /\ pin.parser = "slots"
    /\ Return("slots", parse_slots(DocOf(pin), pin.today))

ApplyParseSlotsV2 ==
    /\ pc = "harness" /\ pout = NoOut /\ pin.parser = "v2"
    /\ Return("v2", parse_slots_v2(DocOf(pin), pin.today))

NextParse ==
    \/ ApplyParseTextFeed
    \/ ApplyParseLivewhaleWidget
    \/ ApplyParseSlots
    \/ ApplyParseSlotsV2

SpecParse == InitParse /\ [][NextParse]_vars

(***************************************************************************)
(* Properties of sync and of the scripts                                   *)
(***************************************************************************)
\* An entry carries the annotation of this program, in the words of the
\* interface: private.source is 'recwell-badminton' and private holds recwell_uid.
Annotated(ev) ==
    /\ "extendedProperties" \in DOMAIN ev
    /\ "private" \in DOMAIN ev.extendedProperties
    /\ "source" \in DOMAIN ev.extendedProperties.private
    /\ ev.extendedProperties.private.source = "recwell-badminton"
    /\ "recwell_uid" \in DOMAIN ev.extendedProperties.private

UidOfEntry(ev) == ev.extendedProperties.private.recwell_uid

\* The calls of the current run with the given operation.
CallsOf(op) == {i \in 1..Len(calls) : calls[i].op = op}
CallUids(op) == {calls[i].uid : i \in CallsOf(op)}

\* D: the uids handed to sync; E: the uids of the annotated entries the listing returned.
DesiredUids == UidsOf(slots)
ListedUids == {UidOfEntry(events[i]) : i \in {j \in 1..Len(events) : Annotated(events[j])}}

SyncCompleted == pc = "done"

\* C1: a sync run that completes without a store failure issues exactly |D \ E|
\* insert calls (one per uid of D \ E), exactly |D \cap E| update calls (one per
\* shared uid, addressed to the backend id of a listed entry annotated with that
\* uid) and exactly |E \ D| delete calls (one per uid of E \ D).
C1_OperationCounts ==
    SyncCompleted =>
        /\ \A i \in 1..Len(calls) : calls[i].ok
        /\ Cardinality(CallsOf("insert")) = Cardinality(DesiredUids \ ListedUids)
        /\ CallUids("insert") = DesiredUids \ ListedUids
        /\ Cardinality(CallsOf("update")) = Cardinality(DesiredUids \cap ListedUids)
        /\ CallUids("update") = DesiredUids \cap ListedUids
        /\ \A i \in CallsOf("update") :
              \E j \in 1..Len(events) :
                 /\ Annotated(events[j])
                 /\ UidOfEntry(events[j]) = calls[i].uid
                 /\ events[j].id = calls[i].id
        /\ Cardinality(CallsOf("delete")) = Cardinality(ListedUids \ DesiredUids)
        /\ CallUids("delete") = ListedUids \ DesiredUids

\* A completed run that inserted, updated and deleted.
C1_Witness ==
    /\ SyncCompleted
    /\ CallsOf("insert") # {}
    /\ CallsOf("update") # {}
    /\ CallsOf("delete") # {}

\* C2: when a run completed and the next run has the same desired uids and
\* completes too, the second run issues no insert and no delete call and the
\* annotated entries of the store are the same after it as after the first.
C2_Idempotent ==
    (SyncCompleted /\ prev.ok /\ prev.desired = DesiredUids) =>
        /\ CallsOf("insert") = {}
        /\ CallsOf("delete") = {}
        /\ {ev \in store : Annotated(ev)} = prev.managed

\* C3: after a completed run, the annotated entries that overlap the window of
\* the run are exactly one per desired uid and none for any other uid.
C3_Converged ==
    SyncCompleted =>
        LET inWindow == {ev \in store : Annotated(ev)
                                        /\ InRange(ev, WindowStart(win), WindowEnd(win))}
        IN  /\ \A u \in DesiredUids :
                  Cardinality({ev \in inWindow : UidOfEntry(ev) = u}) = 1
            /\ \A ev \in inWindow : UidOfEntry(ev) \in DesiredUids

\* C4: no step changes or removes an entry that lacks the annotation, and every
\* update and delete call targets the backend id of an annotated entry.
C4_UnmanagedUntouched ==
    [][ /\ \A ev \in store : ~Annotated(ev) => ev \in store'
        /\ (Len(calls') = Len(calls) + 1 /\ calls'[Len(calls')].op \in {"update", "delete"}) =>
              \E ev \in store : Annotated(ev) /\ ev.id = calls'[Len(calls')].id ]_vars

\* An update or a delete call succeeded on a calendar that holds an entry with
\* extended properties but without the annotation.
C4_Witness ==
    /\ \E i \in 1..Len(calls) : calls[i].op \in {"update", "delete"} /\ calls[i].ok
    /\ \E ev \in store : ~Annotated(ev) /\ "extendedProperties" \in DOMAIN ev

\* C5: once a fetch of the run has failed, the run issues no store call.
C5_FetchFailureAborts == fetchFailed => calls = <<>>

\* The effect of an applied call is in the store: the entry of an insert or an
\* update is there under its uid (an update under the id it addressed), the entry
\* of a delete is gone.
StaysApplied(c) ==
    CASE c.op = "insert" -> \E ev \in store : Annotated(ev) /\ UidOfEntry(ev) = c.uid
      [] c.op = "update" ->
            \E ev \in store : Annotated(ev) /\ UidOfEntry(ev) = c.uid /\ ev.id = c.id
      [] c.op = "delete" -> \A ev \in store : ev.id # c.id
      [] OTHER -> TRUE

\* C7: a store call that raises is the last call of its run; the calls applied
\* before it stay applied; every upsert precedes every delete, so when an insert
\* or an update raised the run has deleted nothing and every listed stale entry
\* is still in the store.
C7_StoreFailureStops ==
    /\ \A i \in 1..(Len(calls) - 1) : calls[i].ok
    /\ \A i \in 1..Len(calls) : \A j \in (i + 1)..Len(calls) :
          calls[i].op = "delete" => calls[j].op = "delete"
    /\ pc = "failed" => \A i \in 1..Len(calls) : calls[i].ok => StaysApplied(calls[i])
    /\ \A i \in 1..Len(calls) :
          (~calls[i].ok /\ calls[i].op \in {"insert", "update"}) =>
              /\ CallsOf("delete") = {}
              /\ \A j \in 1..Len(events) :
                    (Annotated(events[j]) /\ UidOfEntry(events[j]) \notin DesiredUids) =>
                        events[j] \in store

\* An upsert raised after another upsert had been applied, with a stale entry listed.
C7_Witness ==
    /\ pc = "failed"
    /\ \E i \in 1..Len(calls) : \E j \in (i + 1)..Len(calls) :
          /\ calls[i].op \in {"insert", "update"} /\ calls[i].ok
          /\ calls[j].op \in {"insert", "update"} /\ ~calls[j].ok
    /\ ListedUids \ DesiredUids # {}

\* C8: every event handed to sync starts inside the [window_start, window_end)
\* range the list calls of the run use.
C8_SameWindow ==
    pc \in {"list", "upsert", "delete", "done", "failed"} =>
        \A i \in 1..Len(slots) :
            WindowStart(win) <= slots[i].start /\ slots[i].start < WindowEnd(win)

(***************************************************************************)
(* Properties of the parsers                                               *)
(***************************************************************************)
Parsed == pout # NoOut
Emitted == IF Parsed /\ ~pout.res.raised THEN pout.res.val ELSE <<>>
EventsOf(evs) == {evs[i] : i \in 1..Len(evs)}

\* The time tokens of the probed line, and its meridiem hints.
ProbeStart(inp) ==
    CASE inp.parser = "feed" -> inp.probe.s
      [] inp.parser = "widget" -> inp.probe.tm.s
      [] OTHER -> inp.probe.m.s
ProbeEnd(inp) ==
    CASE inp.parser = "feed" -> inp.probe.e
      [] inp.parser = "widget" -> inp.probe.tm.e
      [] OTHER -> inp.probe.m.e
ProbeStartHint(inp) ==
    CASE inp.parser \in {"feed", "widget"} -> NoHint
      [] OTHER -> inp.probe.m.samp
ProbeEndHint(inp) ==
    CASE inp.parser = "feed" -> inp.probe.ampm
      [] inp.parser = "widget" -> inp.probe.tm.ampm
      [] OTHER -> inp.probe.m.eamp

\* Hour 25, minute 99.
OutOfRange == { <<"2", "5">>, <<"2", ":", "9", "9">> }

\* C6: a line whose time tokens are out of range (hour 25, minute 99) raises
\* nothing out of the parse function, and the events of the other lines of the
\* document are emitted.
C6_ParseLocalFailure ==
    (Parsed /\ {ProbeStart(pin), ProbeEnd(pin)} \cap OutOfRange # {}) =>
        /\ ~pout.res.raised
        /\ LET others == RunParser(pin.parser, DocWithoutProbe(pin), pin.today)
           IN  ~others.raised => EventsOf(others.val) \subseteq EventsOf(Emitted)

\* C9: every emitted event has start < end and lasts at most 24 hours; its end
\* is on the day of its start or on the next day.
C9_StartBeforeEnd ==
    \A ev \in EventsOf(Emitted) :
        /\ ev.start < ev.end
        /\ ev.end - ev.start <= MinPerDay
        /\ DateOfDt(ev.end) - DateOfDt(ev.start) \in {0, 1}

\* A parser emitted an event whose end, earlier in the day than its start, was
\* moved to the next day.
C9_Witness ==
    \E ev \in EventsOf(Emitted) :
        /\ DateOfDt(ev.end) = DateOfDt(ev.start) + 1
        /\ ev.end - ev.start < MinPerDay

\* C10: for the range '2-6 p.m.' (no meridiem on the start token, p.m. on the end
\* token) as the only line of a document, every emitted event starts at 14:00
\* and ends at 18:00.
C10_OneSidedMeridiem ==
    ( /\ Parsed
      /\ pin.pre = <<>> /\ pin.post = <<>>
      /\ ProbeStart(pin) = <<"2">> /\ ProbeEnd(pin) = <<"6">>
      /\ ProbeStartHint(pin) = NoHint
      /\ ProbeEndHint(pin) = <<"p", ".", "m", ".">> ) =>
        /\ ~pout.res.raised
        /\ \A ev \in EventsOf(Emitted) :
              /\ ev.start % MinPerDay = 14 * 60
              /\ ev.end % MinPerDay = 18 * 60

(***************************************************************************)
(* The parsers on documents made of schedule lines with their texts        *)
(***************************************************************************)
\* str.upper() on one character and on a text.
UpperChar(c) ==
    IF \E i \in 1..26 : LowerLetters[i] = c
    THEN UpperLetters[CHOOSE i \in 1..26 : LowerLetters[i] = c]
    ELSE c

Upper(s) == [i \in 1..Len(s) |-> UpperChar(s[i])]

\* k in s, for texts.
HasSub(s, k) ==
    \E i \in 0..(Len(s) - Len(k)) : \A j \in 1..Len(k) : s[i + j] = k[j]

\* The venue keywords parse_slots and parse_slots_v2 look for in line.upper().
KeywordChars(k) ==
    CASE k = "FIELD HOUSE" -> <<"F", "I", "E", "L", "D", " ", "H", "O", "U", "S", "E">>
      [] k = "FIELDHOUSE" -> <<"F", "I", "E", "L", "D", "H", "O", "U", "S", "E">>
      [] k = "RSF" -> <<"R", "S", "F">>

VenueKeywords(text) ==
    {k \in {"FIELD HOUSE", "FIELDHOUSE", "RSF"} : HasSub(Upper(text), KeywordChars(k))}

\* A line of a site page that holds a time range, a weekday name ("" for none)
\* and a location text.
SiteLine(m, dow, text) == [m |-> m, U |-> VenueKeywords(text), dow |-> dow]

\* A record of the feed: its Time:, Location: and Event: lines, in the order of
\* the docstring of parse_text_feed (time first) or with the time line last.
\* A text of "" stands for a record without that line.
FeedRecord(tm, loc, ev, order) ==
    LET labels == (IF loc = NoText THEN <<>> ELSE <<[kind |-> "loc", text |-> loc]>>)
                  \o (IF ev = NoText THEN <<>> ELSE <<[kind |-> "event", text |-> ev]>>)
    IN  IF order = "time-first" THEN <<tm>> \o labels ELSE labels \o <<tm>>

\* Location texts: of a site line (texts), of a feed record or widget row (strings).
LocTexts == { <<"R", "S", "F", " ", "A">>, <<"R", "S", "F", " ", "B">>,
              <<"G", "y", "m">>, <<"F", "i", "e", "l", "d", " ", "H", "o", "u", "s", "e">> }
LocStrings == { "RSF Court A", "RSF Court B", "Gym" }

SiteTime == SlotsTime(<<"1", "0">>, <<"a", ".", "m", ".">>, <<"1", "1">>, NoHint)
V2Time == SlotsTime(Noon, NoHint, Midnight, NoHint)
MonHead == [matched |-> TRUE, mon |-> Dec, day |-> <<"2", "9">>]

\* Two documents that differ at most in the location text of their one line.
IdentityDoc(parser, loc, order) ==
    CASE parser = "feed" ->
            <<DayMon>> \o FeedRecord(FeedGood, loc, "Open Rec Badminton", order)
      [] parser = "widget" ->
            << [head |-> MonHead,
                rows |-> << [tm |-> WidgetGood.tm, loc_txt |-> loc,
                             title_txt |-> "Open Rec Badminton"] >>] >>
      [] parser = "slots" ->
            << [dow |-> "Mon", md |-> NoMatch, lines |-> <<SiteLine(SiteTime, "", loc)>>] >>
      [] parser = "v2" ->
            << [dow |-> "Mon", md |-> NoMatch, lines |-> <<SiteLine(V2Time, "", loc)>>] >>

IdentityInputs ==
    { [about |-> "identity", parser |-> p, today |-> Day0, locA |-> a, locB |-> b,
       order |-> o, docs |-> <<IdentityDoc(p, a, o), IdentityDoc(p, b, o)>>] :
        p \in {"feed", "widget"}, a \in LocStrings, b \in LocStrings,
        o \in {"time-first", "time-last"} }
    \cup
    { [about |-> "identity", parser |-> p, today |-> Day0, locA |-> a, locB |-> b,
       order |-> "time-first", docs |-> <<IdentityDoc(p, a, "time-first"),
                                           IdentityDoc(p, b, "time-first")>>] :
        p \in {"slots", "v2"}, a \in LocTexts, b \in LocTexts }

\* Headers with an explicit month and day, read on 29 and on 31 December.
DateHeads ==
    { [mon |-> Jan, monNum |-> 1, day |-> <<"3">>, dayNum |-> 3],
      [mon |-> Jan, monNum |-> 1, day |-> <<"1">>, dayNum |-> 1],
      [mon |-> Dec, monNum |-> 12, day |-> <<"2", "9">>, dayNum |-> 29],
      [mon |-> Dec, monNum |-> 12, day |-> <<"3", "0">>, dayNum |-> 30],
      [mon |-> Dec, monNum |-> 12, day |-> <<"2", "1">>, dayNum |-> 21],
      [mon |-> Dec, monNum |-> 12, day |-> <<"2", "2">>, dayNum |-> 22] }
DateTodays == { Day0, Day0 + 2 }

\* A document with one time line under a header that carries the month and day.
DatesDoc(parser, h) ==
    CASE parser = "feed" -> << [kind |-> "day", mon |-> h.mon, day |-> h.day], FeedGood >>
      [] parser = "widget" ->
            << [head |-> [matched |-> TRUE, mon |-> h.mon, day |-> h.day],
                rows |-> <<WidgetGood>>] >>
      [] parser = "slots" ->
            << [dow |-> "", md |-> [matched |-> TRUE, mon |-> h.mon, day |-> h.day],
                lines |-> <<SiteLine(SiteTime, "", <<>>)>>] >>

DatesInputs ==
    { [about |-> "dates", parser |-> p, today |-> t, head |-> h, docs |-> <<DatesDoc(p, h)>>] :
        p \in {"feed", "widget", "slots"}, h \in DateHeads, t \in DateTodays }

\* A block whose header, the heading with the first three lines, holds no date,
\* no weekday and no time range; its fourth and fifth lines hold a time range
\* each, and the weekday name given ("" for none).
NoTimeLine == [m |-> NoMatch, U |-> {}, dow |-> ""]
SiteTimeB == SlotsTime(<<"8">>, <<"a", ".", "m", ".">>, <<"9">>, NoHint)
V2TimeB == SlotsTime(Midnight, NoHint, Noon, NoHint)
LineDows == { "", "Mon", "Tue", "Thu" }

PerLineDoc(parser, dowA, dowB) ==
    << [dow |-> "", md |-> NoMatch,
        lines |-> << NoTimeLine, NoTimeLine, NoTimeLine,
                     SiteLine(IF parser = "v2" THEN V2Time ELSE SiteTime, dowA, <<>>),
                     SiteLine(IF parser = "v2" THEN V2TimeB ELSE SiteTimeB, dowB, <<>>) >>] >>

PerLineInputs ==
    { [about |-> "perline", parser |-> p, today |-> t, dowA |-> a, dowB |-> b,
       docs |-> <<PerLineDoc(p, a, b)>>] :
        p \in {"slots", "v2"}, t \in DateTodays, a \in LineDows, b \in LineDows }

\* A day block of the feed with two records in the order of the docstring of
\* parse_text_feed: the Time: line, then the Location: and Event: lines the
\* record has.
FeedTimeB == FeedTime(<<"8">>, <<"9">>, <<"a", ".", "m", ".">>)
RecordLocs == { NoText, "RSF Court A", "RSF Court B" }
RecordTitles == { NoText, "Open Rec Badminton", "Doubles Night" }

RecordsDoc(locA, evA, locB, evB) ==
    <<DayMon>> \o FeedRecord(FeedGood, locA, evA, "time-first")
               \o FeedRecord(FeedTimeB, locB, evB, "time-first")

RecordsInputs ==
    { [about |-> "records", parser |-> "feed", today |-> Day0,
       locA |-> la, evA |-> ea, locB |-> lb, evB |-> eb,
       docs |-> <<RecordsDoc(la, ea, lb, eb)>>] :
        la \in RecordLocs, ea \in RecordTitles, lb \in RecordLocs, eb \in RecordTitles }

DocInputs == IdentityInputs \cup DatesInputs \cup PerLineInputs \cup RecordsInputs

InitDocs ==
    /\ pin \in DocInputs
    /\ pout = NoOut
    /\ pc = "docs"
    /\ now = Day0
    /\ pub = [script |-> "none"]
    /\ store = {}
    /\ nextId = 1
    /\ srcs = <<>>
    /\ fetchFailed = FALSE
    /\ slots = <<>>
    /\ win = NoDate
    /\ page = 0
    /\ events = <<>>
    /\ existing = <<>>
    /\ todo = <<>>
    /\ calls = <<>>
    /\ prev = NoPrev
    /\ runs = 0
    /\ fails = 0

\* The parser is called on each document of the input, with the same clock.
DocsParseTextFeed ==
    /\ pc = "docs" /\ pout = NoOut /\ pin.parser = "feed"
    /\ Return("feed", [i \in 1..Len(pin.docs) |-> parse_text_feed(pin.docs[i], pin.today)])

DocsParseLivewhaleWidget ==
    /\ pc = "docs" /\ pout = NoOut /\ pin.parser = "widget"
    /\ Return("widget",
              [i \in 1..Len(pin.docs) |-> parse_livewhale_widget(pin.docs[i], pin.today)])

DocsParseSlots ==
    /\ pc = "docs" /\ pout = NoOut /\ pin.parser = "slots"
    /\ Return("slots", [i \in 1..Len(pin.docs) |-> parse_slots(pin.docs[i], pin.today)])

DocsParseSlotsV2 ==
    /\ pc = "docs" /\ pout = NoOut /\ pin.parser = "v2"
    /\ Return("v2", [i \in 1..Len(pin.docs) |-> parse_slots_v2(pin.docs[i], pin.today)])

NextDocs ==
    \/ DocsParseTextFeed
    \/ DocsParseLivewhaleWidget
    \/ DocsParseSlots
    \/ DocsParseSlotsV2

SpecDocs == InitDocs /\ [][NextDocs]_vars

(***************************************************************************)
(* Properties of the parsers on schedule lines                             *)
(***************************************************************************)
\* The input is about the given matter and its documents have been parsed.
ParsedAbout(about) == pout # NoOut /\ pin.about = about

\* The uids of the events of the i-th document of the input.
DocUids(i) == UidsOf(pout.res[i].val)

\* C11: two schedule lines that differ only in their location text get different
\* uids, and two lines with the same date, times, location text and title get the
\* same uid.
C11_Identity ==
    ParsedAbout("identity") =>
        /\ ~pout.res[1].raised /\ ~pout.res[2].raised
        /\ pin.locA # pin.locB => DocUids(1) \cap DocUids(2) = {}
        /\ pin.locA = pin.locB => DocUids(1) = DocUids(2)

\* The date a header's month and day stand for, read on the given day: in the
\* year of that day, or in the next year when that lies more than 7 days back.
RolledDate(h, today) ==
    LET inYear == DateOf(YearOf(today), h.monNum, h.dayNum).val
    IN  IF today - inYear > 7 THEN DateOf(YearOf(today) + 1, h.monNum, h.dayNum).val
        ELSE inYear

\* C12: under a header with an explicit month and day, the line's event is on the
\* date of the reference year, or of the next year when that date lies more than
\* 7 days before today; it is emitted when that date is inside the window.
C12_YearRollOver ==
    ParsedAbout("dates") =>
        /\ ~pout.res[1].raised
        /\ LET d == RolledDate(pin.head, pin.today)
               emitted == {DateOfDt(ev.start) : ev \in EventsOf(pout.res[1].val)}
           IN  IF pin.today <= d /\ d <= pin.today + 6
               THEN emitted = {d}
               ELSE emitted = {}

(***************************************************************************)
(* to_24h on its own                                                       *)
(***************************************************************************)
\* Time tokens with what they denote: a word, or an hour and a minute.
TimeTokens ==
    { [txt |-> <<"N", "o", "o", "n">>, word |-> "noon", h |-> 12, m |-> 0],
      [txt |-> <<"n", "o", "o", "n">>, word |-> "noon", h |-> 12, m |-> 0],
      [txt |-> <<"N", "O", "O", "N">>, word |-> "noon", h |-> 12, m |-> 0],
      [txt |-> <<"M", "i", "d", "n", "i", "g", "h", "t">>, word |-> "midnight", h |-> 0, m |-> 0],
      [txt |-> <<"m", "i", "d", "n", "i", "g", "h", "t">>, word |-> "midnight", h |-> 0, m |-> 0],
      [txt |-> <<"0">>, word |-> "", h |-> 0, m |-> 0],
      [txt |-> <<"2">>, word |-> "", h |-> 2, m |-> 0],
      [txt |-> <<"1", "1">>, word |-> "", h |-> 11, m |-> 0],
      [txt |-> <<"1", "2">>, word |-> "", h |-> 12, m |-> 0],
      [txt |-> <<"2", "3">>, word |-> "", h |-> 23, m |-> 0],
      [txt |-> <<"2", ":", "3", "0">>, word |-> "", h |-> 2, m |-> 30],
      [txt |-> <<"1", "2", ":", "0", "5">>, word |-> "", h |-> 12, m |-> 5] }

\* Meridiem hints as the patterns capture them, with the half of the day they name.
TimeHints ==
    { [txt |-> NoHint, mer |-> ""],
      [txt |-> <<"p", "m">>, mer |-> "pm"],
      [txt |-> <<"p", ".", "m", ".">>, mer |-> "pm"],
      [txt |-> <<"P", "M">>, mer |-> "pm"],
      [txt |-> <<"a", "m">>, mer |-> "am"],
      [txt |-> <<"a", ".", "m", ".">>, mer |-> "am"],
      [txt |-> <<"A", ".", "M", ".">>, mer |-> "am"] }

TimeInputs ==
    { [about |-> "time", parser |-> p, val |-> v, hint |-> a] :
        p \in {"v2", "widget", "feed"}, v \in TimeTokens, a \in TimeHints }

InitTime ==
    /\ pin \in TimeInputs
    /\ pout = NoOut
    /\ pc = "to_24h"
    /\ now = Day0
    /\ pub = [script |-> "none"]
    /\ store = {}
    /\ nextId = 1
    /\ srcs = <<>>
    /\ fetchFailed = FALSE
    /\ slots = <<>>
    /\ win = NoDate
    /\ page = 0
    /\ events = <<>>
    /\ existing = <<>>
    /\ todo = <<>>
    /\ calls = <<>>
    /\ prev = NoPrev
    /\ runs = 0
    /\ fails = 0

To24hV2 ==
    /\ pc = "to_24h" /\ pout = NoOut /\ pin.parser = "v2"
    /\ Return("v2", to_24h_v2(pin.val.txt, pin.hint.txt))

To24hWidget ==
    /\ pc = "to_24h" /\ pout = NoOut /\ pin.parser = "widget"
    /\ Return("widget", to_24h_feed(pin.val.txt, pin.hint.txt))

To24hFeed ==
    /\ pc = "to_24h" /\ pout = NoOut /\ pin.parser = "feed"
    /\ Return("feed", to_24h_feed(pin.val.txt, pin.hint.txt))

NextTime ==
    \/ To24hV2
    \/ To24hWidget
    \/ To24hFeed

SpecTime == InitTime /\ [][NextTime]_vars

\* C13: to_24h returns (12, 0) for Noon and (0, 0) for Midnight in any case and
\* with any hint; for H or H:MM it returns the minutes (0 when missing) and the
\* hour, plus 12 under a pm hint when the hour is below 12, 0 under an am hint
\* when the hour is 12, unchanged otherwise.
C13_ResolveTime ==
    ParsedAbout("time") =>
        /\ ~pout.res.raised
        /\ pout.res.val =
              CASE pin.val.word = "noon" -> <<12, 0>>
                [] pin.val.word = "midnight" -> <<0, 0>>
                [] pin.val.word = "" /\ pin.hint.mer = "pm" /\ pin.val.h < 12 ->
                      <<pin.val.h + 12, pin.val.m>>
                [] pin.val.word = "" /\ pin.hint.mer = "am" /\ pin.val.h = 12 ->
                      <<0, pin.val.m>>
                [] OTHER -> <<pin.val.h, pin.val.m>>

\* to_24h was called on '12' with an am hint.
C13_Witness ==
    /\ ParsedAbout("time")
    /\ pin.val.txt = <<"1", "2">>
    /\ pin.hint.mer = "am"
    /\ pout.res = Ok(<<0, 0>>)

(***************************************************************************)
(* The listing step of sync                                                *)
(***************************************************************************)
\* The run has written nothing yet: the store is as the list calls saw it.
NothingWritten == CallsOf("insert") \cup CallsOf("update") \cup CallsOf("delete") = {}

\* What the store answered to the i-th call of the run, a list call.
ResponseTo(i) == ListPage(store, calls[i].timeMin, calls[i].timeMax, calls[i].token)

ListingFinished == pc \in {"upsert", "delete", "done"}

\* The first list call carries no token, each further one the nextPageToken of
\* the response before it, and no list call follows a response without a token.
TokensFollowed ==
    NothingWritten =>
        /\ calls # <<>> => calls[1].op = "list" /\ calls[1].token = 0
        /\ \A i \in 1..(Len(calls) - 1) :
              /\ ResponseTo(i).nextPageToken # 0
              /\ calls[i + 1].token = ResponseTo(i).nextPageToken
        /\ (ListingFinished /\ calls # <<>>) => ResponseTo(Len(calls)).nextPageToken = 0

\* The items of all pages are in events, and existing_by_uid has a key for every
\* annotated entry among them.
AllPagesUsed ==
    (NothingWritten /\ ListingFinished) =>
        /\ events = Listing(store, WindowStart(win), WindowEnd(win))
        /\ KeySet(existing) = {UidOfEntry(ev) : ev \in {e \in store : Annotated(e)
                                  /\ InRange(e, WindowStart(win), WindowEnd(win))}}

\* C14: the list loop starts without a token, follows each nextPageToken, stops at
\* the first response without one, builds existing_by_uid from the items of all
\* pages, and ends.
C14_Pagination ==
    /\ [](TokensFollowed /\ AllPagesUsed)
    /\ (pc = "list") ~> (pc # "list")

\* The listing took more than one page and an annotated entry of a later page is
\* a key of existing_by_uid.
C14_Witness ==
    /\ ListingFinished
    /\ \E i \in 1..Len(calls) :
          /\ calls[i].op = "list" /\ calls[i].token # 0
          /\ \E k \in (calls[i].token + 1)..Len(events) :
                Annotated(events[k]) /\ DictHas(existing, UidOfEntry(events[k]))

(***************************************************************************)
(* The weekday of a line when the header names no day                      *)
(***************************************************************************)
\* The start, in minutes of the day, of the fourth and of the fifth line.
PerLineStartA == IF pin.parser = "v2" THEN 12 * 60 ELSE 10 * 60
PerLineStartB == IF pin.parser = "v2" THEN 0 ELSE 8 * 60

\* The start of a line dated from the weekday that line names; none when it
\* names no weekday.
OwnDayStarts(dow, minute) ==
    IF dow = "" THEN {} ELSE {ScanWeekday(pin.today, dow) * MinPerDay + minute}

\* C15: under a header with neither a date nor a weekday, each time line is dated
\* from the weekday named in that line itself, and a line naming none is dropped,
\* whatever the lines before it name.
C15_PerLineWeekday ==
    ParsedAbout("perline") =>
        /\ ~pout.res[1].raised
        /\ {e.start : e \in EventsOf(pout.res[1].val)}
              = OwnDayStarts(pin.dowA, PerLineStartA) \cup OwnDayStarts(pin.dowB, PerLineStartB)

(***************************************************************************)
(* The records of a day block of the feed                                  *)
(***************************************************************************)
\* The event of a record that starts at the given minute of the day, with the
\* location and the title of the record's own lines, or the defaults.
OwnRecordEvent(minute, loc, ev) ==
    [start |-> pin.today * MinPerDay + minute,
     location |-> OrElse(loc, CAL_LOC_FALLBACK), title |-> OrElse(ev, CAL_TITLE)]

\* C16: in a feed whose records are in the order Time, Location, Event, each event
\* has the location and the title of the lines that follow its Time: line, and
\* the defaults only when its own record has no such line.
C16_OwnRecord ==
    ParsedAbout("records") =>
        /\ ~pout.res[1].raised
        /\ {[start |-> e.start, location |-> e.location, title |-> e.title] :
                e \in EventsOf(pout.res[1].val)}
              = { OwnRecordEvent(10 * 60, pin.locA, pin.evA),
                  OwnRecordEvent(8 * 60, pin.locB, pin.evB) }

====
